---- MODULE Spec2Model ----
(***************************************************************************)
(* A model of niftynet/io/misc_io.py: header rectification, loading,       *)
(* reorientation, resampling, saving and file-name splitting.              *)
(*                                                                         *)
(* Every component is a pure function or a short sequential routine, so    *)
(* each has a specification of its own (SpecRectify, SpecResample, ...)    *)
(* whose Init draws the inputs from bounded sets and whose actions run the *)
(* routine.  The variables of the other components stay at their idle      *)
(* values.                                                                 *)
(*                                                                         *)
(* Numbers: affines, spacings and extents are small integers, and the      *)
(* affines have axis-aligned columns, so that every square root, division  *)
(* and product the code computes in floating point is exact and the        *)
(* integer arithmetic below is what numpy computes.                        *)
(***************************************************************************)
EXTENDS Integers, Sequences, FiniteSets, TLC

VARIABLES
    hist,     \* rectifier: the image object at the start and after each call
    ops,      \* rectifier: the calls made, "rectify" or "correct", in order
    rsIn,     \* resampler: the array and the two spacings of the round trip
    rsOut,    \* resampler: the outcome of each do_resampling call made
    pyround,  \* resampler: how the interpreter's round() breaks ties
    roIn,     \* reorientation: the array and the two orientation codes
    roOut,    \* reorientation: the array each do_reorientation call returned
    ldIn,     \* loading: what each registered loader does with the file
    ldCalls,  \* loading: the loaders invoked so far, in order
    ldResult, \* loading: how load_image ended, once it has
    proc,     \* saving: per writer, its position and its local variables
    dirExists,\* saving: whether the directory save_path exists
    files,    \* saving: the files written under save_path
    spIn,     \* file names: the path handed to split_filename
    spOut     \* file names: what split_filename returned, once it has

rectVars == <<hist, ops>>
resVars  == <<rsIn, rsOut, pyround>>
roVars   == <<roIn, roOut>>
ldVars   == <<ldIn, ldCalls, ldResult>>
svVars   == <<proc, dirExists, files>>
spVars   == <<spIn, spOut>>
vars == <<rectVars, resVars, roVars, ldVars, svVars, spVars>>

(***************************************************************************)
(* Idle values: what a component's variables hold in the specifications    *)
(* of the other components.                                                *)
(***************************************************************************)
IdleRect == hist = <<>> /\ ops = <<>>
IdleRes  == rsIn = <<>> /\ rsOut = <<>> /\ pyround = "even"
IdleRo   == roIn = <<>> /\ roOut = <<>>
IdleLd   == ldIn = <<>> /\ ldCalls = <<>> /\ ldResult = <<>>
IdleSv   == proc = <<>> /\ dirExists = FALSE /\ files = {}
IdleSp   == spIn = <<>> /\ spOut = <<>>

(***************************************************************************)
(* Bounds.                                                                 *)
(***************************************************************************)
MaxZoom == 2      \* spacings and column norms range over 1..MaxZoom
MaxCalls == 2     \* rectification calls made in a row on one image

(***************************************************************************)
(* numpy helpers.                                                          *)
(***************************************************************************)
\* np.sqrt on the perfect squares the model's affines produce
Sqrt(n) == CHOOSE r \in 0..n : r * r = n

\* np.array_equal: same shape and same elements
ArrayEqual(a, b) ==
    /\ Len(a) = Len(b)
    /\ \A i \in 1..Len(a) : a[i] = b[i]

\* np.sqrt(np.sum(np.square(M[0:3, 0:3]), 0)): the norms of the three
\* columns of the 3x3 block
Norm3x3(M) ==
    [j \in 1..3 |-> Sqrt(M[1][j] * M[1][j] + M[2][j] * M[2][j] + M[3][j] * M[3][j])]

\* np.sqrt(np.sum(np.square(affine[:, 0:3]), 0)): the norms of the first
\* three columns over all four rows
NormCols(M) ==
    [j \in 1..3 |-> Sqrt(M[1][j] * M[1][j] + M[2][j] * M[2][j]
                         + M[3][j] * M[3][j] + M[4][j] * M[4][j])]

(***************************************************************************)
(* create_affine_pixdim: every column j of the affine is divided by        *)
(* to_divide.T[.][j] (its norm, 1 for the translation column) and          *)
(* multiplied by to_multiply.T[.][j] (pixdim[j], 1 for the translation     *)
(* column).                                                                *)
(***************************************************************************)
\* the rescaling without the division by the column norms
create_affine_pixdim_no_divide(affine, pixdim) ==
    LET to_multiply_ == pixdim \o <<1>>
    IN  [i \in 1..4 |-> [j \in 1..4 |-> affine[i][j] * to_multiply_[j]]]

create_affine_pixdim(affine, pixdim) ==
    LET norm_affine == NormCols(affine)
        to_divide   == norm_affine \o <<1>>
        to_multiply == pixdim \o <<1>>
    IN  [i \in 1..4 |->
            [j \in 1..4 |-> (affine[i][j] \div to_divide[j]) * to_multiply[j]]]

(***************************************************************************)
(* The nibabel image object, as far as misc_io.py uses it.                 *)
(*   header['dim'][0]       ndim                                           *)
(*   header.get_zooms()     pixdim, one entry per array dimension          *)
(*   get_sform/get_qform    sform, qform                                   *)
(*   img.affine             affine: the header's best affine, refreshed    *)
(*                          by set_sform and set_qform                     *)
(*   hasattr(get_sform)     nifti                                          *)
(***************************************************************************)
\* Nifti1Header.get_base_affine, without the centring offset
BaseAffine(pixdim) ==
    << <<0 - pixdim[1], 0, 0, 0>>,
       <<0, pixdim[2], 0, 0>>,
       <<0, 0, pixdim[3], 0>>,
       <<0, 0, 0, 1>> >>

\* Nifti1Header.get_best_affine: sform if coded, else qform if coded, else
\* the base affine
BestAffine(h) ==
    IF h.sform_code > 0 THEN h.sform
    ELSE IF h.qform_code > 0 THEN h.qform
    ELSE BaseAffine(h.pixdim)

\* img.header.get_zooms()
get_zooms(h) == h.pixdim

\* img_nii.set_sform(affine): stores the affine, turns an unknown code (0)
\* into 2 (aligned), refreshes img.affine
set_sform(h, a) ==
    LET h1 == [h EXCEPT !.sform = a,
                        !.sform_code = IF @ = 0 THEN 2 ELSE @]
    IN  [h1 EXCEPT !.affine = BestAffine(h1)]

\* img_nii.set_qform(affine): stores the affine (as zooms and a rotation, so
\* the first three pixdims become the affine's column norms), turns an
\* unknown code into 2, refreshes img.affine
set_qform(h, a) ==
    LET z  == Norm3x3(a)
        h1 == [h EXCEPT !.qform = a,
                        !.qform_code = IF @ = 0 THEN 2 ELSE @,
                        !.pixdim = [k \in 1..Len(@) |-> IF k <= 3 THEN z[k] ELSE @[k]]]
    IN  [h1 EXCEPT !.affine = BestAffine(h1)]

(***************************************************************************)
(* rectify_header_sform_qform                                              *)
(***************************************************************************)
\* get_zooms()[:3]
SubSeq3(s) == SubSeq(s, 1, IF Len(s) < 3 THEN Len(s) ELSE 3)

\* the rectifier with the recovery copying the wrong way: the inconsistent
\* active form over the consistent other form
rectify_header_sform_qform_swapped(img_nii) ==
    LET pixdim     == get_zooms(img_nii)
        flag_sform_problem == ~ArrayEqual(Norm3x3(img_nii.sform), pixdim)
        flag_qform_problem == ~ArrayEqual(Norm3x3(img_nii.qform), pixdim)
        new_affine == create_affine_pixdim(img_nii.affine, SubSeq3(get_zooms(img_nii)))
        fallback   == set_qform(set_sform(img_nii, new_affine), new_affine)
    IN  IF img_nii.sform_code > 0
        THEN IF ~flag_sform_problem THEN img_nii
             ELSE IF ~flag_qform_problem THEN set_qform(img_nii, img_nii.sform)
             ELSE fallback
        ELSE IF img_nii.qform_code > 0
        THEN IF ~flag_qform_problem THEN img_nii
             ELSE IF ~flag_sform_problem THEN set_sform(img_nii, img_nii.qform)
             ELSE fallback
        ELSE fallback

rectify_header_sform_qform(img_nii) ==
    LET pixdim     == get_zooms(img_nii)
        sform      == img_nii.sform
        qform      == img_nii.qform
        norm_sform == Norm3x3(sform)
        norm_qform == Norm3x3(qform)
        flag_sform_problem == ~ArrayEqual(norm_sform, pixdim)
        flag_qform_problem == ~ArrayEqual(norm_qform, pixdim)
        affine     == img_nii.affine
        new_affine == create_affine_pixdim(affine, SubSeq3(get_zooms(img_nii)))
        fallback   == set_qform(set_sform(img_nii, new_affine), new_affine)
    IN  IF img_nii.sform_code > 0
        THEN IF ~flag_sform_problem THEN img_nii
             ELSE IF ~flag_qform_problem THEN set_sform(img_nii, img_nii.qform)
             ELSE fallback
        ELSE IF img_nii.qform_code > 0
        THEN IF ~flag_qform_problem THEN img_nii
             ELSE IF ~flag_sform_problem THEN set_qform(img_nii, img_nii.sform)
             ELSE fallback
        ELSE fallback

(***************************************************************************)
(* correct_image_if_necessary                                              *)
(***************************************************************************)
correct_image_if_necessary(image) ==
    IF image.ndim = 5 THEN image
    ELSE LET pixdim == get_zooms(image)
         IN  IF ~ArrayEqual(Norm3x3(image.affine), pixdim) /\ image.nifti
             THEN rectify_header_sform_qform(image)
             ELSE image

(***************************************************************************)
(* Inputs of the rectifier.                                                *)
(***************************************************************************)
Zooms == [1..3 -> 1..MaxZoom]

\* zooms with the same in-plane resolution on the first two axes
PlaneZooms == {z \in Zooms : z[1] = z[2]}

\* an axis-aligned affine with column norms z: the first axis reversed, the
\* other two not, and a translation
MakeAffine(z) ==
    << <<0 - z[1], 0, 0, 5>>,
       <<0, z[2], 0, 0 - 7>>,
       <<0, 0, z[3], 3>>,
       <<0, 0, 0, 1>> >>

Codes == {0, 1}
Ndims == {3, 4, 5}

\* pixdim of an image of n dimensions: the spatial zooms, then 1 for each
\* trailing dimension
Pixdim(z, n) == [k \in 1..n |-> IF k <= 3 THEN z[k] ELSE 1]

\* NIfTI images as nib.load returns them: img.affine is the best affine
NiftiImages ==
    { LET h == [ndim |-> n, pixdim |-> Pixdim(p, n), nifti |-> TRUE,
                sform_code |-> sc, qform_code |-> qc,
                sform |-> MakeAffine(zs), qform |-> MakeAffine(zq),
                affine |-> MakeAffine(zs)]
      IN  [h EXCEPT !.affine = BestAffine(h)] :
        n \in Ndims, p \in PlaneZooms, sc \in Codes, qc \in Codes,
        zs \in Zooms, zq \in PlaneZooms }

\* an image of another back-end: an affine and zooms, no sform or qform
OtherImages ==
    { [ndim |-> n, pixdim |-> Pixdim(p, n), nifti |-> FALSE,
       sform_code |-> 0, qform_code |-> 0,
       sform |-> MakeAffine(p), qform |-> MakeAffine(p),
       affine |-> MakeAffine(za)] :
        n \in Ndims, p \in PlaneZooms, za \in Zooms }

\* the image object as it is now
img == hist[Len(hist)]
calls == Len(ops)

InitRectify ==
    /\ hist \in {<<h>> : h \in NiftiImages \cup OtherImages}
    /\ ops = <<>>
    /\ IdleRes /\ IdleRo /\ IdleLd /\ IdleSv /\ IdleSp

\* a caller applies rectify_header_sform_qform to a NIfTI image
Rectify ==
    /\ calls < MaxCalls
    /\ img.nifti
    /\ hist' = Append(hist, rectify_header_sform_qform(img))
    /\ ops' = Append(ops, "rectify")
    /\ UNCHANGED <<resVars, roVars, ldVars, svVars, spVars>>

\* load_image applies correct_image_if_necessary to a loaded image
Correct ==
    /\ calls < MaxCalls
    /\ hist' = Append(hist, correct_image_if_necessary(img))
    /\ ops' = Append(ops, "correct")
    /\ UNCHANGED <<resVars, roVars, ldVars, svVars, spVars>>

NextRectify == Rectify \/ Correct

SpecRectify == InitRectify /\ [][NextRectify]_vars

(***************************************************************************)
(* C1: after a call of rectify_header_sform_qform, with "consistent" as    *)
(* the code decides it (np.array_equal of the form's column norms and      *)
(* get_zooms()): (1) an active form that is consistent leaves the image    *)
(* as it was; (2) otherwise a consistent other form is copied into the     *)
(* active form and is itself unchanged; (3) otherwise, or with no active   *)
(* form, sform and qform are both the affine create_affine_pixdim makes    *)
(* of the image affine and the first three pixdims.                        *)
(***************************************************************************)
Consistent(form, h) == ArrayEqual(Norm3x3(form), h.pixdim)

TieBreak(pre, post) ==
    LET sOK == Consistent(pre.sform, pre)
        qOK == Consistent(pre.qform, pre)
        sActive == pre.sform_code > 0
        qActive == ~sActive /\ pre.qform_code > 0
        synth == create_affine_pixdim(pre.affine, SubSeq(pre.pixdim, 1, 3))
    IN  /\ (sActive /\ sOK) \/ (qActive /\ qOK) => post = pre
        /\ sActive /\ ~sOK /\ qOK =>
              post.sform = pre.qform /\ post.qform = pre.qform
        /\ qActive /\ ~qOK /\ sOK =>
              post.qform = pre.sform /\ post.sform = pre.sform
        /\ (~sOK /\ ~qOK) \/ (~sActive /\ ~qActive) =>
              post.sform = synth /\ post.qform = synth

C1_TieBreak ==
    \A k \in 1..Len(ops) :
        ops[k] = "rectify" => TieBreak(hist[k], hist[k + 1])

\* cross-recovery happened: the active qform was replaced by the sform
C1_Witness ==
    /\ Len(ops) = 1 /\ ops[1] = "rectify"
    /\ hist[1].sform_code = 0 /\ hist[1].qform_code > 0
    /\ ~Consistent(hist[1].qform, hist[1])
    /\ Consistent(hist[1].sform, hist[1])
    /\ hist[2].qform = hist[1].sform
    /\ hist[2].qform # hist[1].qform

(***************************************************************************)
(* C7: applying the same rectification call a second time leaves the       *)
(* image affine, sform and qform as the first application left them.       *)
(***************************************************************************)
C7_Idempotent ==
    \A k \in 2..Len(ops) :
        ops[k] = ops[k - 1] =>
            /\ hist[k + 1].affine = hist[k].affine
            /\ hist[k + 1].sform = hist[k].sform
            /\ hist[k + 1].qform = hist[k].qform

\* the first application synthesized a new affine, the second ran on it
C7_Witness ==
    /\ Len(ops) = 2 /\ ops[1] = "correct" /\ ops[2] = "correct"
    /\ hist[2].sform # hist[1].sform
    /\ hist[2].qform # hist[1].qform
    /\ hist[2].affine # hist[1].affine
    /\ hist[3] = hist[2]

(***************************************************************************)
(* do_resampling.  An array is its shape (the claims on resampling are on  *)
(* shapes and errors, not on sample values); None is the absent array.     *)
(***************************************************************************)
None == [isNone |-> TRUE, shape |-> <<>>]
Array(shape) == [isNone |-> FALSE, shape |-> shape]

Returned(a) == [kind |-> "return", value |-> a]
Raised(e)   == [kind |-> e, value |-> None]

\* int(round(num / den)) for num >= 0, den > 0: to the nearest integer, a
\* tie to the even neighbour (Python 3) or away from zero (Python 2)
Round(num, den) ==
    LET q == num \div den
        r == num % den
    IN  IF 2 * r < den THEN q
        ELSE IF 2 * r > den THEN q + 1
        ELSE IF pyround = "even" /\ q % 2 = 0 THEN q
        ELSE q + 1

\* whether np.divide can broadcast two 1-d operands of these lengths
Broadcastable(n, m) == n = m \/ n = 1 \/ m = 1

\* the factors the wrong way round: target spacing over source spacing
to_multiply_inverted(pixdim_init, pixdim_fin) ==
    [k \in 1..3 |-> <<pixdim_fin[k], pixdim_init[k]>>]

\* to_multiply = np.divide(pixdim_init, pixdim_fin[:len(pixdim_init)]),
\* kept as the pairs <<numerator, denominator>> of the first three factors

to_multiply(pixdim_init, pixdim_fin) ==
    [k \in 1..3 |-> <<pixdim_init[k], pixdim_fin[k]>>]

\* scipy.ndimage.zoom of a 3-d slab: each extent times its factor, rounded
zoom(shape3, factors) ==
    [k \in 1..3 |-> Round(shape3[k] * factors[k][1], factors[k][2])]

\* do_resampling without its check of the number of dimensions: indexing
\* data_shape[3], data_shape[4] or zooming a slab of the wrong rank fails
do_resampling_unchecked(data_array, pixdim_init, pixdim_fin) ==
    IF data_array.isNone THEN Returned(None)
    ELSE IF ArrayEqual(pixdim_fin, pixdim_init) THEN Returned(data_array)
    ELSE IF Len(data_array.shape) < 5 THEN Raised("IndexError")
    ELSE IF Len(data_array.shape) > 5 THEN Raised("RuntimeError")
    ELSE Returned(Array(
            zoom(SubSeq(data_array.shape, 1, 3), to_multiply(pixdim_init, pixdim_fin))
            \o <<data_array.shape[4], data_array.shape[5]>>))

do_resampling(data_array, pixdim_init, pixdim_fin) ==
    IF data_array.isNone THEN Returned(None)
    ELSE IF ArrayEqual(pixdim_fin, pixdim_init) THEN Returned(data_array)
    ELSE LET fin_len == IF Len(pixdim_fin) < Len(pixdim_init)
                        THEN Len(pixdim_fin) ELSE Len(pixdim_init)
             data_shape == data_array.shape
         IN  IF ~Broadcastable(Len(pixdim_init), fin_len)
             THEN Raised("ValueError")
             ELSE IF Len(data_shape) # 5 THEN Raised("ValueError")
             ELSE LET factors == to_multiply(pixdim_init, pixdim_fin)
                      data_new == zoom(SubSeq(data_shape, 1, 3), factors)
                      \* one slab per t and per m, concatenated on the last
                      \* two axes
                  IN  Returned(Array(data_new \o <<data_shape[4], data_shape[5]>>))

(***************************************************************************)
(* Inputs of the resampler: a round trip s1 -> s2 -> s1.                   *)
(***************************************************************************)
MaxExtent == 3    \* spatial extents range over 1..MaxExtent

\* spacings of three spatial axes, with or without a fourth (time) entry
Spacings == PlaneZooms \cup {z \o <<1>> : z \in PlaneZooms}

Shapes5 ==
    { <<x, y, z>> \o tm : x \in 1..MaxExtent, y \in 1..MaxExtent,
                          z \in 1..MaxExtent, tm \in {<<1, 1>>, <<1, 2>>, <<2, 1>>} }

\* arrays that are not 5-d: 3-d, 4-d and 6-d
ShapesNot5 ==
    UNION { {<<n, n, n>>, <<n, n, n, 1>>, <<n, n, n, 1, 1, 1>>} : n \in 1..MaxExtent }

InitResample ==
    /\ rsIn \in [data : {None} \cup {Array(sh) : sh \in Shapes5 \cup ShapesNot5},
                 s1 : Spacings, s2 : Spacings]
    /\ rsOut = <<>>
    /\ pyround \in {"even", "away"}
    /\ IdleRect /\ IdleRo /\ IdleLd /\ IdleSv /\ IdleSp

\* do_resampling(x, s1, s2, order)
ResampleForward ==
    /\ rsOut = <<>>
    /\ rsOut' = <<do_resampling(rsIn.data, rsIn.s1, rsIn.s2)>>
    /\ UNCHANGED <<rsIn, pyround, rectVars, roVars, ldVars, svVars, spVars>>

\* do_resampling(y, s2, s1, order) on the array y the first call returned
ResampleBack ==
    /\ Len(rsOut) = 1
    /\ rsOut[1].kind = "return"
    /\ rsOut' = Append(rsOut, do_resampling(rsOut[1].value, rsIn.s2, rsIn.s1))
    /\ UNCHANGED <<rsIn, pyround, rectVars, roVars, ldVars, svVars, spVars>>

NextResample == ResampleForward \/ ResampleBack

SpecResample == InitResample /\ [][NextResample]_vars

(***************************************************************************)
(* C2 as claimed: do_resampling of an array that is not None and not 5-d   *)
(* ends in ValueError for every pair of spacings.                          *)
(***************************************************************************)
C2_AlwaysError ==
    (Len(rsOut) >= 1 /\ ~rsIn.data.isNone /\ Len(rsIn.data.shape) # 5)
        => rsOut[1].kind = "ValueError"

(***************************************************************************)
(* C2 amended: do_resampling of an array that is not None and not 5-d ends *)
(* in ValueError, returning no array, when the two spacings are not equal  *)
(* (np.array_equal); when they are equal it returns the array as it is.    *)
(***************************************************************************)
C2_ErrorUnlessEqual ==
    (Len(rsOut) >= 1 /\ ~rsIn.data.isNone /\ Len(rsIn.data.shape) # 5)
        => IF ArrayEqual(rsIn.s2, rsIn.s1)
           THEN rsOut[1] = Returned(rsIn.data)
           ELSE rsOut[1] = Raised("ValueError")

\* a 4-d array and two different spacings of the same length: the shape
\* check itself raised
C2_Witness ==
    /\ Len(rsOut) = 1
    /\ Len(rsIn.data.shape) = 4
    /\ Len(rsIn.s1) = Len(rsIn.s2) /\ rsIn.s1 # rsIn.s2
    /\ rsOut[1].kind = "ValueError"

(***************************************************************************)
(* C8 as claimed: a round trip that returns an array returns one of the    *)
(* shape of the 5-d array it started from.                                 *)
(***************************************************************************)
RoundTripDone ==
    /\ Len(rsOut) = 2
    /\ ~rsIn.data.isNone /\ Len(rsIn.data.shape) = 5
    /\ rsOut[2].kind = "return"

C8_RoundTripShape ==
    RoundTripDone => rsOut[2].value.shape = rsIn.data.shape

(***************************************************************************)
(* C8 amended: the round trip keeps the time and channel extents, and      *)
(* keeps every spatial extent whose product with s1/s2 is a whole number   *)
(* (the first step then loses nothing to rounding).                        *)
(***************************************************************************)
C8_RoundTripExact ==
    RoundTripDone =>
        /\ rsOut[2].value.shape[4] = rsIn.data.shape[4]
        /\ rsOut[2].value.shape[5] = rsIn.data.shape[5]
        /\ \A k \in 1..3 :
              (rsIn.data.shape[k] * rsIn.s1[k]) % rsIn.s2[k] = 0
                  => rsOut[2].value.shape[k] = rsIn.data.shape[k]

\* a round trip through a coarser grid that resampled both ways and came
\* back to the shape it started from
C8_Witness ==
    /\ RoundTripDone
    /\ rsIn.s1 # rsIn.s2
    /\ rsOut[1].value.shape # rsIn.data.shape
    /\ \A k \in 1..3 : (rsIn.data.shape[k] * rsIn.s1[k]) % rsIn.s2[k] = 0
    /\ rsOut[2].value.shape = rsIn.data.shape

(***************************************************************************)
(* do_reorientation.  Here an array has values: data maps every index      *)
(* (one entry per axis, from 1) to the element there.                      *)
(***************************************************************************)
MaxAxisLen == 2   \* extents of the arrays that are reoriented

\* the indices of an array of this shape, of 3, 4 or 5 dimensions
Indices(shape) ==
    CASE Len(shape) = 3 ->
           { <<a, b, c>> : a \in 1..shape[1], b \in 1..shape[2], c \in 1..shape[3] }
      [] Len(shape) = 4 ->
           { <<a, b, c, d>> : a \in 1..shape[1], b \in 1..shape[2], c \in 1..shape[3],
                              d \in 1..shape[4] }
      [] Len(shape) = 5 ->
           { <<a, b, c, d, e>> : a \in 1..shape[1], b \in 1..shape[2], c \in 1..shape[3],
                                 d \in 1..shape[4], e \in 1..shape[5] }

\* nib.orientations.axcodes2ornt with the default labels (L,R), (P,A),
\* (I,S): per array axis, <<anatomical axis, direction>>
axcodes2ornt(axcodes) ==
    [k \in 1..Len(axcodes) |->
        CASE axcodes[k] = "L" -> <<1, 0 - 1>>
          [] axcodes[k] = "R" -> <<1, 1>>
          [] axcodes[k] = "P" -> <<2, 0 - 1>>
          [] axcodes[k] = "A" -> <<2, 1>>
          [] axcodes[k] = "I" -> <<3, 0 - 1>>
          [] axcodes[k] = "S" -> <<3, 1>>]

\* the transform that flips an axis whenever the target code reverses it,
\* whatever the direction the array has it in
ornt_transform_end_flip(start_ornt, end_ornt) ==
    [s \in 1..Len(start_ornt) |->
        LET e == CHOOSE e \in 1..Len(end_ornt) : end_ornt[e][1] = start_ornt[s][1]
        IN  <<e, end_ornt[e][2]>>]

\* nib.orientations.ornt_transform: per axis of the start orientation, the
\* axis of the end orientation it becomes and whether it is flipped
ornt_transform(start_ornt, end_ornt) ==
    [s \in 1..Len(start_ornt) |->
        LET e == CHOOSE e \in 1..Len(end_ornt) : end_ornt[e][1] = start_ornt[s][1]
        IN  <<e, IF start_ornt[s][2] = end_ornt[e][2] THEN 1 ELSE 0 - 1>>]

\* nib.orientations.apply_orientation: flip the axes marked -1, then
\* transpose the leading axes by argsort(ornt[:, 0]); the trailing axes
\* stay where they are
apply_orientation(arr, ornt) ==
    LET n == Len(ornt)
        \* full_transpose: the input axis that becomes output axis j
        full_transpose == [j \in 1..Len(arr.shape) |->
                             IF j <= n THEN CHOOSE a \in 1..n : ornt[a][1] = j ELSE j]
        \* the output axis an input axis a goes to
        out_axis(a) == CHOOSE j \in 1..Len(arr.shape) : full_transpose[j] = a
        shape == [j \in 1..Len(arr.shape) |-> arr.shape[full_transpose[j]]]
        src(i) == [a \in 1..Len(arr.shape) |->
                      IF a <= n /\ ornt[a][2] = 0 - 1
                      THEN arr.shape[a] + 1 - i[out_axis(a)]
                      ELSE i[out_axis(a)]]
    IN  [shape |-> shape, data |-> [i \in Indices(shape) |-> arr.data[src(i)]]]

do_reorientation(data_array, init_axcodes, final_axcodes) ==
    LET ornt_init == axcodes2ornt(init_axcodes)
        ornt_fin  == axcodes2ornt(final_axcodes)
    IN  IF ArrayEqual(ornt_init, ornt_fin) THEN data_array
        ELSE apply_orientation(data_array, ornt_transform(ornt_init, ornt_fin))

(***************************************************************************)
(* Inputs of the reorientation: 5-d arrays whose elements are all          *)
(* different (each element is its own index), and the orientation codes of *)
(* three spatial axes: one label per anatomical axis.                      *)
(***************************************************************************)
Labels == {"L", "R", "P", "A", "I", "S"}

AxCodes ==
    {c \in [1..3 -> Labels] :
        \A j, k \in 1..3 : j # k => axcodes2ornt(c)[j][1] # axcodes2ornt(c)[k][1]}

Labelled(shape) == [shape |-> shape, data |-> [i \in Indices(shape) |-> i]]

ReorientArrays ==
    { Labelled(<<x, y, z, 1, m>>) :
        x \in 1..MaxAxisLen, y \in 1..MaxAxisLen, z \in 1..MaxAxisLen, m \in {2} }

InitReorient ==
    /\ roIn \in [x : ReorientArrays, A : AxCodes, B : AxCodes]
    /\ roOut = <<>>
    /\ IdleRect /\ IdleRes /\ IdleLd /\ IdleSv /\ IdleSp

\* do_reorientation(x, A, B)
ReorientForward ==
    /\ roOut = <<>>
    /\ roOut' = <<do_reorientation(roIn.x, roIn.A, roIn.B)>>
    /\ UNCHANGED <<roIn, rectVars, resVars, ldVars, svVars, spVars>>

\* do_reorientation(y, B, A) on the array y the first call returned
ReorientBack ==
    /\ Len(roOut) = 1
    /\ roOut' = Append(roOut, do_reorientation(roOut[1], roIn.B, roIn.A))
    /\ UNCHANGED <<roIn, rectVars, resVars, ldVars, svVars, spVars>>

NextReorient == ReorientForward \/ ReorientBack

SpecReorient == InitReorient /\ [][NextReorient]_vars

(***************************************************************************)
(* C9: do_reorientation(do_reorientation(x, A, B), B, A) is x, element for *)
(* element; the time and channel axes of do_reorientation(x, A, B) are     *)
(* those of x; and do_reorientation(x, A, A) is x.                         *)
(***************************************************************************)
C9_RoundTrip ==
    /\ Len(roOut) >= 1 =>
          /\ roOut[1].shape[4] = roIn.x.shape[4]
          /\ roOut[1].shape[5] = roIn.x.shape[5]
          /\ \A i \in Indices(roOut[1].shape) :
                /\ roOut[1].data[i][4] = i[4]
                /\ roOut[1].data[i][5] = i[5]
          /\ roIn.A = roIn.B => roOut[1] = roIn.x
    /\ Len(roOut) = 2 => roOut[2] = roIn.x

\* a round trip through a code that permutes and flips the axes: the array
\* in between has another shape and other elements in place
C9_Witness ==
    /\ Len(roOut) = 2
    /\ roIn.A = <<"R", "A", "S">> /\ roIn.B = <<"I", "L", "A">>
    /\ roOut[1].shape # roIn.x.shape
    /\ roOut[1].data # roIn.x.data
    /\ roOut[2] = roIn.x

(***************************************************************************)
(* load_image.  image_loaders holds nib.load and, when its import          *)
(* succeeded, the SimpleITK adapter.  A loader returns an image, raises    *)
(* nib.filebasedimages.ImageFileError (it cannot read the format) or       *)
(* raises another error; an error is the pair of its type and the loader   *)
(* that raised it (0: load_image itself).                                  *)
(***************************************************************************)
MaxLoaders == 2

\* the images a loader can return for the file
LoadableImages ==
    {h \in NiftiImages \cup OtherImages :
        h.ndim < 5 /\ h.pixdim[3] = 1 /\ h.qform = MakeAffine([k \in 1..3 |-> 1])}

LoaderOutcomes ==
    {[kind |-> "image", image |-> h] : h \in LoadableImages}
    \cup {[kind |-> "ImageFileError"], [kind |-> "IOError"]}

Error(type, origin) == [type |-> type, origin |-> origin]

InitLoad ==
    /\ ldIn \in UNION {[1..n -> LoaderOutcomes] : n \in 1..MaxLoaders}
    /\ ldCalls = <<>>
    /\ ldResult = <<>>
    /\ IdleRect /\ IdleRes /\ IdleRo /\ IdleSv /\ IdleSp

\* the loader the for loop is at
image_loader == Len(ldCalls) + 1

Loading == ldResult = <<>>

\* lines 56-58: the loader returns an image; it is corrected and returned
LoaderReturns ==
    /\ Loading /\ image_loader <= Len(ldIn)
    /\ ldIn[image_loader].kind = "image"
    /\ ldCalls' = Append(ldCalls, image_loader)
    /\ ldResult' = <<[kind |-> "return",
                      image |-> correct_image_if_necessary(ldIn[image_loader].image)]>>
    /\ UNCHANGED <<ldIn, rectVars, resVars, roVars, svVars, spVars>>

\* lines 59-61: the loader raises ImageFileError; on to the next loader
LoaderCannotRead ==
    /\ Loading /\ image_loader <= Len(ldIn)
    /\ ldIn[image_loader].kind = "ImageFileError"
    /\ ldCalls' = Append(ldCalls, image_loader)
    /\ UNCHANGED <<ldIn, ldResult, rectVars, resVars, roVars, svVars, spVars>>

\* the loader raises an error the except clause does not catch
LoaderFails ==
    /\ Loading /\ image_loader <= Len(ldIn)
    /\ ldIn[image_loader].kind = "IOError"
    /\ ldCalls' = Append(ldCalls, image_loader)
    /\ ldResult' = <<[kind |-> "raise", error |-> Error("IOError", image_loader)]>>
    /\ UNCHANGED <<ldIn, rectVars, resVars, roVars, svVars, spVars>>

\* lines 62-63: no loader is left; load_image raises an ImageFileError of
\* its own ('No loader could load the file')
NoLoaderLeft ==
    /\ Loading /\ image_loader > Len(ldIn)
    /\ ldResult' = <<[kind |-> "raise", error |-> Error("ImageFileError", 0)]>>
    /\ UNCHANGED <<ldIn, ldCalls, rectVars, resVars, roVars, svVars, spVars>>

NextLoad == LoaderReturns \/ LoaderCannotRead \/ LoaderFails \/ NoLoaderLeft

SpecLoad == InitLoad /\ [][NextLoad]_vars

(***************************************************************************)
(* C4 as claimed: the loaders are tried in registration order; a loader is *)
(* tried only after every loader before it raised ImageFileError, so none  *)
(* is tried after one succeeded; and when every loader raised              *)
(* ImageFileError, the error load_image raises is the one the last loader  *)
(* raised.                                                                 *)
(***************************************************************************)
C4_LastLoaderError ==
    /\ \A k \in 1..Len(ldCalls) : ldCalls[k] = k
    /\ \A k \in 1..Len(ldCalls) : \A j \in 1..(k - 1) : ldIn[j].kind = "ImageFileError"
    /\ (ldResult # <<>> /\ \A k \in 1..Len(ldIn) : ldIn[k].kind = "ImageFileError")
          => /\ ldResult[1].kind = "raise"
             /\ ldResult[1].error = Error("ImageFileError", Len(ldIn))

(***************************************************************************)
(* save_data_array and save_volume_5d.  A writer is one call; proc[w]      *)
(* holds its position (pc) and its local variables.  Arrays are shapes, as *)
(* for the resampler; log is the list of the steps the writer has taken,   *)
(* each with the array handed to it.                                       *)
(***************************************************************************)
MaxWriters == 2   \* concurrent callers of save_volume_5d

Eye4 == << <<1, 0, 0, 0>>, <<0, 1, 0, 0>>, <<0, 0, 1, 0>>, <<0, 0, 0, 1>> >>

NoImageObject ==
    [isNone |-> TRUE, original_affine |-> Eye4, output_pixdim |-> <<>>,
     output_axcodes |-> <<>>, original_pixdim |-> <<>>, original_axcodes |-> <<>>]

\* np.expand_dims(array_to_save, axis=3) of a 4-d array
expand_dims3(a) ==
    Array(<<a.shape[1], a.shape[2], a.shape[3], 1, a.shape[4]>>)

\* do_reorientation of an array known by its shape
reorient_shape(a, init_axcodes, final_axcodes) ==
    Array(do_reorientation(Labelled(a.shape), init_axcodes, final_axcodes).shape)

\* the order of the statements of save_data_array, reorientation moved
\* before resampling
SdaOrder_reorient_first == <<"sda_start", "sda_expand", "sda_reorient", "sda_resample", "sda_save">>

\* the order of the statements of save_data_array (lines 193-212)
SdaOrder == <<"sda_start", "sda_expand", "sda_resample", "sda_reorient", "sda_save">>

\* the statement after the one at pc
SdaNext(pc) ==
    LET k == CHOOSE k \in 1..Len(SdaOrder) : SdaOrder[k] = pc
    IN  SdaOrder[k + 1]

Step(name, arg, pixdims, axcodes, affine) ==
    [step |-> name, arg |-> arg, pixdims |-> pixdims, axcodes |-> axcodes,
     affine |-> affine]

\* the writer's local variables on entry to save_data_array
SdaCall(array, image_object, filename) ==
    [pc |-> "sda_start", arg |-> array, image_object |-> image_object,
     filename |-> filename, array_to_save |-> array, affine |-> Eye4,
     image_pixdim |-> <<>>, image_axcodes |-> <<>>,
     dst_pixdim |-> <<>>, dst_axcodes |-> <<>>,
     img_data |-> None, exists |-> FALSE, dir0 |-> FALSE, log |-> <<>>, err |-> ""]

\* the writer's local variables on entry to save_volume_5d
Sv5Call(img_data, filename, affine) ==
    [SdaCall(img_data, NoImageObject, filename) EXCEPT
        !.pc = "sv5_entry", !.img_data = img_data, !.affine = affine]

\* lines 193-201: the provenance fields, or the identity affine and no
\* spacing and no orientation code
SdaProvenance(w) ==
    /\ proc[w].pc = "sda_start"
    /\ LET o == proc[w].image_object
       IN  proc' = [proc EXCEPT ![w] =
              IF ~o.isNone
              THEN [@ EXCEPT !.affine = o.original_affine,
                             !.image_pixdim = o.output_pixdim,
                             !.image_axcodes = o.output_axcodes,
                             !.dst_pixdim = o.original_pixdim,
                             !.dst_axcodes = o.original_axcodes,
                             !.dir0 = dirExists,
                             !.pc = SdaNext(@)]
              ELSE [@ EXCEPT !.affine = Eye4,
                             !.image_pixdim = <<>>,
                             !.image_axcodes = <<>>,
                             !.dir0 = dirExists,
                             !.pc = SdaNext(@)]]
    /\ UNCHANGED <<dirExists, files, rectVars, resVars, roVars, ldVars, spVars>>

\* lines 203-205: array_to_save.shape of None raises AttributeError; a 4-d
\* array gets a time axis
SdaExpand(w) ==
    /\ proc[w].pc = "sda_expand"
    /\ LET a == proc[w].array_to_save
       IN  proc' = [proc EXCEPT ![w] =
              IF a.isNone
              THEN [@ EXCEPT !.pc = "raised", !.err = "AttributeError"]
              ELSE IF Len(a.shape) = 4
              THEN [@ EXCEPT !.array_to_save = expand_dims3(a),
                             !.log = Append(@, Step("expand", a, <<>>, <<>>, <<>>)),
                             !.pc = SdaNext(@)]
              ELSE [@ EXCEPT !.pc = SdaNext(@)]]
    /\ UNCHANGED <<dirExists, files, rectVars, resVars, roVars, ldVars, spVars>>

\* lines 206-208
SdaResample(w) ==
    /\ proc[w].pc = "sda_resample"
    /\ LET a == proc[w].array_to_save
           r == do_resampling(a, proc[w].image_pixdim, proc[w].dst_pixdim)
           s == Step("resample", a, <<proc[w].image_pixdim, proc[w].dst_pixdim>>, <<>>, <<>>)
       IN  proc' = [proc EXCEPT ![w] =
              IF proc[w].image_pixdim = <<>>
              THEN [@ EXCEPT !.pc = SdaNext(@)]
              ELSE IF r.kind # "return"
              THEN [@ EXCEPT !.log = Append(@, s), !.pc = "raised", !.err = r.kind]
              ELSE [@ EXCEPT !.log = Append(@, s), !.array_to_save = r.value,
                             !.pc = SdaNext(@)]]
    /\ UNCHANGED <<dirExists, files, rectVars, resVars, roVars, ldVars, spVars>>

\* lines 209-211
SdaReorient(w) ==
    /\ proc[w].pc = "sda_reorient"
    /\ LET a == proc[w].array_to_save
           s == Step("reorient", a, <<>>, <<proc[w].image_axcodes, proc[w].dst_axcodes>>, <<>>)
       IN  proc' = [proc EXCEPT ![w] =
              IF proc[w].image_axcodes = <<>>
              THEN [@ EXCEPT !.pc = SdaNext(@)]
              ELSE [@ EXCEPT !.log = Append(@, s),
                             !.array_to_save =
                                 reorient_shape(a, proc[w].image_axcodes, proc[w].dst_axcodes),
                             !.pc = SdaNext(@)]]
    /\ UNCHANGED <<dirExists, files, rectVars, resVars, roVars, ldVars, spVars>>

\* line 212: save_volume_5d(array_to_save, filename, filefolder, affine)
SdaSave(w) ==
    /\ proc[w].pc = "sda_save"
    /\ proc' = [proc EXCEPT ![w] =
           [@ EXCEPT !.log = Append(@, Step("save", proc[w].array_to_save, <<>>, <<>>,
                                                proc[w].affine)),
                     !.img_data = proc[w].array_to_save,
                     !.pc = "sv5_entry"]]
    /\ UNCHANGED <<dirExists, files, rectVars, resVars, roVars, ldVars, spVars>>

\* lines 235-236
Sv5Entry(w) ==
    /\ proc[w].pc = "sv5_entry"
    /\ proc' = [proc EXCEPT ![w].pc = IF proc[w].img_data.isNone THEN "done" ELSE "sv5_exists"]
    /\ UNCHANGED <<dirExists, files, rectVars, resVars, roVars, ldVars, spVars>>

\* line 238: os.path.exists(save_path)
Sv5Exists(w) ==
    /\ proc[w].pc = "sv5_exists"
    /\ proc' = [proc EXCEPT ![w].exists = dirExists, ![w].pc = "sv5_makedirs"]
    /\ UNCHANGED <<dirExists, files, rectVars, resVars, roVars, ldVars, spVars>>

\* lines 239-242: os.makedirs(save_path) raises OSError when the directory
\* exists by now; the error is logged and raised again
Sv5MakeDirs(w) ==
    /\ proc[w].pc = "sv5_makedirs"
    /\ IF proc[w].exists
       THEN proc' = [proc EXCEPT ![w].pc = "sv5_write"] /\ UNCHANGED dirExists
       ELSE IF dirExists
       THEN proc' = [proc EXCEPT ![w].pc = "raised", ![w].err = "OSError"]
            /\ UNCHANGED dirExists
       ELSE proc' = [proc EXCEPT ![w].pc = "sv5_write"] /\ dirExists' = TRUE
    /\ UNCHANGED <<files, rectVars, resVars, roVars, ldVars, spVars>>

\* lines 244-252: nib.save(img_nii, output_name)
Sv5Write(w) ==
    /\ proc[w].pc = "sv5_write"
    /\ files' = files \cup {proc[w].filename}
    /\ proc' = [proc EXCEPT ![w].pc = "done"]
    /\ UNCHANGED <<dirExists, rectVars, resVars, roVars, ldVars, spVars>>

(***************************************************************************)
(* One call of save_data_array.                                            *)
(***************************************************************************)
SaveArrays ==
    {None} \cup
    UNION { {Array(<<n, 1, 2>>), Array(<<n, 1, 2, 2>>), Array(<<n, 1, 2, 1, 2>>)} :
              n \in 1..MaxExtent }

SaveAxCodes == {<<"R", "A", "S">>, <<"I", "L", "A">>}

ImageObjects ==
    {NoImageObject} \cup
    { [isNone |-> FALSE, original_affine |-> MakeAffine(op),
       output_pixdim |-> ip, output_axcodes |-> ic,
       original_pixdim |-> op, original_axcodes |-> oc] :
        ip \in {<<>>} \cup PlaneZooms, op \in PlaneZooms,
        ic \in {<<>>} \cup SaveAxCodes, oc \in SaveAxCodes }

InitSave ==
    /\ proc \in {[w \in {1} |-> SdaCall(a, o, "out.nii.gz")] :
                    a \in SaveArrays, o \in ImageObjects}
    /\ dirExists \in BOOLEAN
    /\ files = {}
    /\ IdleRect /\ IdleRes /\ IdleRo /\ IdleLd /\ IdleSp

NextSave ==
    \E w \in DOMAIN proc :
        \/ SdaProvenance(w)
        \/ SdaExpand(w)
        \/ SdaResample(w)
        \/ SdaReorient(w)
        \/ SdaSave(w)
        \/ Sv5Entry(w)
        \/ Sv5Exists(w)
        \/ Sv5MakeDirs(w)
        \/ Sv5Write(w)

SpecSave == InitSave /\ [][NextSave]_vars

(***************************************************************************)
(* Several callers of save_volume_5d at once, all with the same save_path, *)
(* which does not exist yet.                                               *)
(***************************************************************************)
InitWriters ==
    /\ proc \in [1..MaxWriters ->
                    {Sv5Call(a, f, Eye4) : a \in {None, Array(<<2, 2, 2, 1, 1>>)},
                                           f \in {"a.nii.gz", "b.nii.gz"}}]
    /\ dirExists = FALSE
    /\ files = {}
    /\ IdleRect /\ IdleRes /\ IdleRo /\ IdleLd /\ IdleSp

NextWriters ==
    \E w \in DOMAIN proc :
        \/ Sv5Entry(w)
        \/ Sv5Exists(w)
        \/ Sv5MakeDirs(w)
        \/ Sv5Write(w)

SpecWriters == InitWriters /\ [][NextWriters]_vars

(***************************************************************************)
(* C3 as claimed: save_data_array with None for the array returns without  *)
(* raising, creates no directory and writes no file.                       *)
(***************************************************************************)
C3_NoneIsNoOp ==
    \A w \in DOMAIN proc :
        (proc[w].arg.isNone /\ proc[w].pc # "sda_start") =>
            /\ proc[w].pc # "raised"
            /\ dirExists = proc[w].dir0
            /\ files = {}

(***************************************************************************)
(* C5 as claimed: no writer of save_volume_5d fails because the directory  *)
(* already exists.                                                         *)
(***************************************************************************)
C5_NoWriterFails ==
    \A w \in DOMAIN proc : ~(proc[w].pc = "raised" /\ proc[w].err = "OSError")

(***************************************************************************)
(* C6: the steps save_data_array has taken are, at every moment, the first *)
(* steps of: the expansion of a 4-d array to <<x, y, z, 1, c>>; the        *)
(* resampling of that array from the processing-time spacing to the        *)
(* original spacing, if the former is not empty; the reorientation of the  *)
(* resampled array from the processing-time code to the original code, if  *)
(* the former is not empty; the save of the array so made, once, with the  *)
(* original affine (the identity without an image_object).  Once the array *)
(* is handed to the save step, they are all of them.                       *)
(***************************************************************************)
ExpectedSteps(array, o) ==
    LET a1 == IF Len(array.shape) = 4
              THEN Array(<<array.shape[1], array.shape[2], array.shape[3], 1, array.shape[4]>>)
              ELSE array
        resample == ~o.isNone /\ o.output_pixdim # <<>>
        r  == do_resampling(a1, o.output_pixdim, o.original_pixdim)
        a2 == IF resample THEN r.value ELSE a1
        reorient == ~o.isNone /\ o.output_axcodes # <<>>
        a3 == IF reorient /\ ~a2.isNone
              THEN reorient_shape(a2, o.output_axcodes, o.original_axcodes)
              ELSE a2
    IN  (IF Len(array.shape) = 4 THEN <<Step("expand", array, <<>>, <<>>, <<>>)>> ELSE <<>>)
        \o (IF resample
            THEN <<Step("resample", a1, <<o.output_pixdim, o.original_pixdim>>, <<>>, <<>>)>>
            ELSE <<>>)
        \o (IF reorient
            THEN <<Step("reorient", a2, <<>>, <<o.output_axcodes, o.original_axcodes>>, <<>>)>>
            ELSE <<>>)
        \o <<Step("save", a3, <<>>, <<>>, IF o.isNone THEN Eye4 ELSE o.original_affine)>>

IsPrefix(s, t) == Len(s) <= Len(t) /\ s = SubSeq(t, 1, Len(s))

Handed(pc) == pc \in {"sv5_entry", "sv5_exists", "sv5_makedirs", "sv5_write", "done"}

C6_StepOrder ==
    \A w \in DOMAIN proc :
        LET expected == ExpectedSteps(proc[w].arg, proc[w].image_object)
        IN  /\ IsPrefix(proc[w].log, expected)
            /\ Handed(proc[w].pc) => proc[w].log = expected

\* a 4-d array was expanded, resampled to another shape, reoriented to
\* another shape and saved
C6_Witness ==
    /\ proc[1].pc = "done"
    /\ Len(proc[1].log) = 4
    /\ proc[1].log[2].step = "resample"
    /\ proc[1].log[3].step = "reorient"
    /\ proc[1].log[3].arg # proc[1].log[2].arg
    /\ proc[1].log[4].arg # proc[1].log[3].arg
    /\ proc[1].log[4].affine = proc[1].image_object.original_affine

(***************************************************************************)
(* split_filename.  A string is the sequence of its characters.            *)
(***************************************************************************)
MaxStemLen == 2   \* length of the part of a file name before its suffix

FILE_EXTENSIONS == << <<".", "n", "i", "i", ".", "g", "z">>,
                      <<".", "t", "a", "r", ".", "g", "z">> >>

\* str.lower on one character
LowerChar(c) ==
    CASE c = "N" -> "n" [] c = "I" -> "i" [] c = "G" -> "g" [] c = "Z" -> "z"
      [] c = "T" -> "t" [] c = "A" -> "a" [] c = "R" -> "r" [] c = "P" -> "p"
      [] OTHER -> c

\* a comparison that does not fold case
lower_missing(str) == str

\* str.lower()
lower(str) == [k \in 1..Len(str) |-> LowerChar(str[k])]

\* str[-n:]: the last n characters, the whole string if it is shorter
Last(str, n) == IF Len(str) <= n THEN str ELSE SubSeq(str, Len(str) - n + 1, Len(str))

\* str.rfind(c), counting from 1: 0 when c does not occur
rfind(str, c) ==
    IF \E k \in 1..Len(str) : str[k] = c
    THEN CHOOSE k \in 1..Len(str) : str[k] = c /\ \A j \in (k + 1)..Len(str) : str[j] # c
    ELSE 0

\* str.rstrip('/')
rstrip_sep(str) ==
    IF \A k \in 1..Len(str) : str[k] = "/" THEN <<>>
    ELSE SubSeq(str, 1, CHOOSE k \in 1..Len(str) :
                           str[k] # "/" /\ \A j \in (k + 1)..Len(str) : str[j] = "/")

\* os.path.dirname (posixpath): up to the last separator, trailing
\* separators dropped unless there is nothing else
dirname(path) ==
    LET head == SubSeq(path, 1, rfind(path, "/"))
    IN  IF head # <<>> /\ \E k \in 1..Len(head) : head[k] # "/"
        THEN rstrip_sep(head) ELSE head

\* os.path.basename (posixpath): after the last separator
basename(path) == SubSeq(path, rfind(path, "/") + 1, Len(path))

\* os.path.splitext of a name without separators: split at the last dot,
\* unless only dots precede it
splitext(name) ==
    LET dotIndex == rfind(name, ".")
    IN  IF dotIndex > 0 /\ \E k \in 1..(dotIndex - 1) : name[k] # "."
        THEN <<SubSeq(name, 1, dotIndex - 1), SubSeq(name, dotIndex, Len(name))>>
        ELSE <<name, <<>>>>

\* the for loop of lines 260-265 from FILE_EXTENSIONS[k] on: <<fname, ext>>,
\* ext empty when no special extension matched
RECURSIVE special_split(_, _)
special_split(fname, k) ==
    IF k > Len(FILE_EXTENSIONS) THEN <<fname, <<>>>>
    ELSE LET special_ext == FILE_EXTENSIONS[k]
             ext_len == Len(special_ext)
         IN  IF lower(Last(fname, ext_len)) = special_ext
             THEN <<IF Len(fname) > ext_len
                    THEN SubSeq(fname, 1, Len(fname) - ext_len) ELSE <<>>,
                    Last(fname, ext_len)>>
             ELSE special_split(fname, k + 1)

split_filename(file_name) ==
    LET pth   == dirname(file_name)
        fname == basename(file_name)
        sp    == special_split(fname, 1)
    IN  IF sp[2] = <<>>
        THEN [pth |-> pth, fname |-> splitext(sp[1])[1], ext |-> splitext(sp[1])[2]]
        ELSE [pth |-> pth, fname |-> sp[1], ext |-> sp[2]]

(***************************************************************************)
(* Inputs of split_filename: a directory part, a stem and a suffix.        *)
(***************************************************************************)
Dirs == { <<>>, <<"/">>, <<"d", "/">>, <<"/", "d", "/", "e", "/">>, <<"d", "/", "/">>,
          <<"d", ".", "e", "/">> }

Stems == UNION {[1..n -> {"a", "."}] : n \in 0..MaxStemLen}

Suffixes ==
    { <<>>,
      <<".", "n", "i", "i", ".", "g", "z">>, <<".", "N", "I", "I", ".", "G", "Z">>,
      <<".", "N", "i", "i", ".", "g", "Z">>,
      <<".", "t", "a", "r", ".", "g", "z">>, <<".", "T", "A", "R", ".", "g", "z">>,
      <<".", "n", "i", "i">>, <<".", "g", "z">>, <<".", "p", "n", "g">>,
      <<".", "P", "N", "G">>,
      <<"n", "i", "i", ".", "g", "z">>, <<".", "n", "i", "i", "g", "z">>,
      <<".", "n", "i", "i", ".", "g", "z", "a">>, <<".", "n", "i", "i", ".", "g", "z", ".">> }

InitSplit ==
    /\ spIn \in {d \o st \o sf : d \in Dirs, st \in Stems, sf \in Suffixes}
    /\ spOut = <<>>
    /\ IdleRect /\ IdleRes /\ IdleRo /\ IdleLd /\ IdleSv

Split ==
    /\ spOut = <<>>
    /\ spOut' = <<split_filename(spIn)>>
    /\ UNCHANGED <<spIn, rectVars, resVars, roVars, ldVars, svVars>>

NextSplit == Split

SpecSplit == InitSplit /\ [][NextSplit]_vars

(***************************************************************************)
(* C10: when the basename ends, whatever the case of its letters, in       *)
(* ".nii.gz" or ".tar.gz", the extension returned is that ending as the    *)
(* input spells it and the base name is the basename without it; otherwise *)
(* they are the generic split of the basename at its last extension.  The  *)
(* directory returned is the input's directory, and base name and          *)
(* extension together are the input's basename.                            *)
(***************************************************************************)
EndsWithFolded(name, e) ==
    /\ Len(name) >= Len(e)
    /\ \A k \in 1..Len(e) : LowerChar(name[Len(name) - Len(e) + k]) = e[k]

C10_Split ==
    spOut # <<>> =>
        LET r    == spOut[1]
            base == basename(spIn)
            compound == \E k \in 1..Len(FILE_EXTENSIONS) : EndsWithFolded(base, FILE_EXTENSIONS[k])
        IN  /\ r.pth = dirname(spIn)
            /\ r.fname \o r.ext = base
            /\ compound =>
                  \E k \in 1..Len(FILE_EXTENSIONS) :
                      /\ Len(r.ext) = Len(FILE_EXTENSIONS[k])
                      /\ EndsWithFolded(r.ext, FILE_EXTENSIONS[k])
            /\ ~compound => <<r.fname, r.ext>> = splitext(base)

\* a compound extension in capitals after a dotted stem in a directory
C10_Witness ==
    /\ spOut # <<>>
    /\ spIn = <<"d", ".", "e", "/", "a", ".", ".", "N", "I", "I", ".", "G", "Z">>
    /\ spOut[1] = [pth |-> <<"d", ".", "e">>, fname |-> <<"a", ".">>,
                   ext |-> <<".", "N", "I", "I", ".", "G", "Z">>]

====
